---- MODULE Spec2Model ----
(***************************************************************************)
(* Model of the generic algebraic multigrid engine amgcl::amg              *)
(* (src/amgcl/amgcl.hpp) with the SPAI-0 smoother amgcl::relaxation::spai0 *)
(* (src/amgcl/relaxation/spai.hpp).                                        *)
(*                                                                         *)
(* Three specifications share the variables:                               *)
(*   SpecSetup  the constructor amg::amg for every small input matrix and  *)
(*              an arbitrary coarsening, followed by system_matrix();      *)
(*   SpecCycle  the constructor for 1-D Poisson inputs and a pairwise      *)
(*              coarsening, followed by calls of apply() and cycle();      *)
(*   SpecSpai   the constructor spai0::spai0, one row at a time.           *)
(*                                                                         *)
(* value_type is modelled by the prime field Z_Modulus extended with one   *)
(* absorbing non-finite element NaN (what IEEE arithmetic produces for     *)
(* 0/0 and then propagates).  Sparse matrices are kept row by row as       *)
(* sequences of (col, val) entries, as the row iterators of the source     *)
(* see them.  A boost::shared_ptr is a sequence of length 0 (empty) or 1.  *)
(***************************************************************************)
EXTENDS Integers, Sequences, FiniteSets, TLC

(***************************************************************************)
(* Bounds of the model.                                                    *)
(***************************************************************************)
\* largest number of rows or columns of an input matrix, and largest
\* number of columns a coarsening may return
MaxN == 3
\* largest value of prm.coarse_enough
MaxCoarseEnough == 3
\* the setup loop is cut after this many non-terminal levels
MaxLevels == 3
\* largest number of rows of a matrix handed to the spai0 constructor
MaxSpaiN == 2
\* largest value of prm.npre and prm.npost
MaxSweeps == 1
\* largest value of prm.ncycle
MaxNcycle == 2
\* largest value of prm.pre_cycles
MaxPreCycles == 1

(***************************************************************************)
(* value_type arithmetic.                                                  *)
(***************************************************************************)
Modulus == 31
NaN == Modulus
Value == 0..Modulus

Neg(a) == IF a = NaN THEN NaN ELSE (Modulus - a) % Modulus
VAdd(a, b) == IF a = NaN \/ b = NaN THEN NaN ELSE (a + b) % Modulus
VSub(a, b) == IF a = NaN \/ b = NaN THEN NaN ELSE (a + Modulus - b) % Modulus
VMul(a, b) == IF a = NaN \/ b = NaN THEN NaN ELSE (a * b) % Modulus
VInv(b) == CHOOSE y \in 1..(Modulus - 1) : (b * y) % Modulus = 1
\* a / b; a zero divisor gives a non-finite quotient (0/0 is NaN)
VDiv(a, b) == IF a = NaN \/ b = NaN \/ b = 0 THEN NaN ELSE (a * VInv(b)) % Modulus

(***************************************************************************)
(* shared_ptr                                                              *)
(***************************************************************************)
Null == <<>>
MakeShared(obj) == <<obj>>
Deref(p) == p[1]

(***************************************************************************)
(* Sparse matrices and the backend kernels (spec section 4.1).             *)
(***************************************************************************)
Entry(c, v) == [col |-> c, val |-> v]
Matrix(n, m, rws) == [nrows |-> n, ncols |-> m, row |-> rws]
rows(A) == A.nrows
cols(A) == A.ncols

RECURSIVE nonzerosFrom(_, _)
nonzerosFrom(A, i) ==
    IF i > A.nrows THEN 0 ELSE Len(A.row[i]) + nonzerosFrom(A, i + 1)
nonzeros(A) == nonzerosFrom(A, 1)

\* sort_rows: every row sorted by ascending column, stable on duplicates
RECURSIVE InsertSorted(_, _)
InsertSorted(e, s) ==
    IF s = <<>> THEN <<e>>
    ELSE IF e.col <= Head(s).col THEN <<e>> \o s
    ELSE <<Head(s)>> \o InsertSorted(e, Tail(s))
RECURSIVE SortRow(_)
SortRow(r) == IF r = <<>> THEN <<>> ELSE InsertSorted(Head(r), SortRow(Tail(r)))
SortRows(A) == Matrix(A.nrows, A.ncols, [i \in 1..A.nrows |-> SortRow(A.row[i])])

\* value of x at (1-based) position c; reading past the end of a vector is
\* a read of memory the vector does not own
VecAt(x, c) == IF c \in 1..Len(x) THEN x[c] ELSE NaN

\* sum over the stored entries of a row of val * x[col]
RECURSIVE RowDot(_, _)
RowDot(r, x) ==
    IF r = <<>> THEN 0
    ELSE VAdd(VMul(Head(r).val, VecAt(x, Head(r).col)), RowDot(Tail(r), x))

\* spmv(alpha, A, x, beta, y): y <- alpha A x + beta y; with beta = 0 the
\* old y is not read
Spmv(alpha, A, x, beta, y) ==
    [i \in 1..A.nrows |->
        IF beta = 0 THEN VMul(alpha, RowDot(A.row[i], x))
        ELSE VAdd(VMul(alpha, RowDot(A.row[i], x)), VMul(beta, VecAt(y, i)))]

\* residual(rhs, A, x, out): out <- rhs - A x
Residual(rhs, A, x) ==
    [i \in 1..A.nrows |-> VSub(VecAt(rhs, i), RowDot(A.row[i], x))]

\* vmul(alpha, d, x, beta, y): y <- alpha d.x + beta y, elementwise
Vmul(alpha, d, x, beta, y) ==
    [i \in 1..Len(y) |->
        VAdd(VMul(alpha, VMul(VecAt(d, i), VecAt(x, i))), VMul(beta, y[i]))]

\* clear(v) and copy(src, dst)
Clear(v) == [i \in 1..Len(v) |-> 0]
Copy(src, dst) == [i \in 1..Len(dst) |-> VecAt(src, i)]

\* Backend::create_vector(n, bprm): the contract does not say what a new
\* vector holds; bprm.fill is what the allocation happens to contain
CreateVector(n, bp) == [i \in 1..n |-> bp.fill]
\* Backend::copy_matrix, Backend::copy_vector
CopyMatrix(a, bp) == MakeShared(a)
CopyVector(v, bp) == MakeShared(v)

\* sum of the stored values of a row at column j, and whether one is stored
RECURSIVE At(_, _)
At(r, j) ==
    IF r = <<>> THEN 0
    ELSE VAdd(IF Head(r).col = j THEN Head(r).val ELSE 0, At(Tail(r), j))
Has(r, j) == \E k \in 1..Len(r) : r[k].col = j
RowOf(B, k) == IF k \in 1..B.nrows THEN B.row[k] ELSE <<>>

\* transpose(A)
RECURSIVE TransRow(_, _, _)
TransRow(A, j, i) ==
    IF i > A.nrows THEN <<>>
    ELSE (IF Has(A.row[i], j) THEN <<Entry(i, At(A.row[i], j))>> ELSE <<>>)
         \o TransRow(A, j, i + 1)
Transpose(A) == Matrix(A.ncols, A.nrows, [j \in 1..A.ncols |-> TransRow(A, j, 1)])

\* product(A, B): row-by-row sparse product with column-sorted rows
RECURSIVE ProdAt(_, _, _)
ProdAt(ar, B, j) ==
    IF ar = <<>> THEN 0
    ELSE VAdd(VMul(Head(ar).val, At(RowOf(B, Head(ar).col), j)), ProdAt(Tail(ar), B, j))
ProdHas(ar, B, j) == \E k \in 1..Len(ar) : Has(RowOf(B, ar[k].col), j)
RECURSIVE ProdRow(_, _, _)
ProdRow(ar, B, j) ==
    IF j > B.ncols THEN <<>>
    ELSE (IF ProdHas(ar, B, j) THEN <<Entry(j, ProdAt(ar, B, j))>> ELSE <<>>)
         \o ProdRow(ar, B, j + 1)
Product(A, B) == Matrix(A.nrows, B.ncols, [i \in 1..A.nrows |-> ProdRow(A.row[i], B, 1)])

(***************************************************************************)
(* Coarsening strategy (template parameter Coarsening, spec section 4.2).  *)
(* transfer_operators returns P of shape n x m and R = P^T of shape m x n, *)
(* row i of P putting fine point i into aggregate ((i-1) mod m) + 1;       *)
(* coarse_operator is the Galerkin product R A P.  The number m of         *)
(* aggregates is the strategy's choice.                                    *)
(***************************************************************************)
Tentative(n, m) ==
    Matrix(n, m, [i \in 1..n |-> IF m = 0 THEN <<>> ELSE <<Entry(((i - 1) % m) + 1, 1)>>])
TransferOperators(a, m) ==
    LET p == Tentative(rows(a), m) IN [P |-> p, R |-> Transpose(p)]
\* the Galerkin product: A P is formed once, then R (A P)
CoarseOperator(a, p, r) ==
    CHOOSE c \in {Product(r, ap) : ap \in {Product(a, p)}} : TRUE

\* the numbers of aggregates a strategy may return for the matrix a
CoarseSizes(strategy, a) ==
    CASE strategy = "pairwise"    -> {(rows(a) + 1) \div 2}
      [] strategy = "reducing"    -> 0..(rows(a) - 1)
      [] strategy = "nonreducing" -> rows(a)..MaxN
      [] OTHER                    -> 0..MaxN

(***************************************************************************)
(* relaxation::spai0 (src/amgcl/relaxation/spai.hpp).                      *)
(***************************************************************************)
\* den += v * v over the stored entries of a row
RECURSIVE Spai0Den(_)
Spai0Den(r) ==
    IF r = <<>> THEN 0 ELSE VAdd(VMul(Head(r).val, Head(r).val), Spai0Den(Tail(r)))
\* if (a.col() == i) num += v
RECURSIVE Spai0Num(_, _)
Spai0Num(r, i) ==
    IF r = <<>> THEN 0
    ELSE VAdd(IF Head(r).col = i THEN Head(r).val ELSE 0, Spai0Num(Tail(r), i))
\* m[i] = num / den
Spai0Row(a, i) == VDiv(Spai0Num(a.row[i], i), Spai0Den(a.row[i]))
\* the constructor as a whole: the relaxation object holding M
Spai0(a, bp) == [M |-> CopyVector([i \in 1..rows(a) |-> Spai0Row(a, i)], bp)]

\* spai0::apply: residual(rhs, A, x, tmp); vmul(1, M, tmp, 1, x)
Spai0Apply(rel, a, b, xv) ==
    LET tmp == Residual(b, a, xv)
    IN  [tmp |-> tmp, x |-> Vmul(1, Deref(rel.M), tmp, 1, xv)]
\* apply_pre and apply_post both forward to apply
ApplyPre(rel, a, b, xv) == Spai0Apply(rel, a, b, xv)
ApplyPost(rel, a, b, xv) == Spai0Apply(rel, a, b, xv)

(***************************************************************************)
(* Backend::direct_solver (spec section 4.4): x <- A^-1 rhs, by Cramer's   *)
(* rule on the dense form of the coarsest matrix.                          *)
(***************************************************************************)
Dense(a) == [i \in 1..a.nrows |-> [j \in 1..a.ncols |-> At(a.row[i], j)]]
Minor(D, j) ==
    [i \in 1..(Len(D) - 1) |-> [k \in 1..(Len(D) - 1) |-> D[i + 1][IF k < j THEN k ELSE k + 1]]]
RECURSIVE Det(_)
RECURSIVE DetSum(_, _)
DetSum(D, j) ==
    IF j > Len(D) THEN 0
    ELSE LET term == VMul(D[1][j], Det(Minor(D, j)))
         IN  VAdd(IF j % 2 = 1 THEN term ELSE Neg(term), DetSum(D, j + 1))
Det(D) == IF Len(D) = 0 THEN 1 ELSE DetSum(D, 1)
ReplaceCol(D, j, b) ==
    [i \in 1..Len(D) |-> [k \in 1..Len(D) |-> IF k = j THEN VecAt(b, i) ELSE D[i][k]]]
CreateSolver(a, bp) == MakeShared([D |-> Dense(a)])
Solve(s, b) ==
    [i \in 1..Len(s.D) |-> VDiv(Det(ReplaceCol(s.D, i, b)), Det(s.D))]

(***************************************************************************)
(* amg::params and amg::level (src/amgcl/amgcl.hpp).                       *)
(***************************************************************************)
Params(ce, npre, npost, ncycle, pre_cycles) ==
    [coarse_enough |-> ce, npre |-> npre, npost |-> npost,
     ncycle |-> ncycle, pre_cycles |-> pre_cycles]
\* params(): npre, npost, ncycle and pre_cycles default to 1
DefaultParams(ce) == Params(ce, 1, 1, 1, 1)

\* level(a, p, r, prm, bprm): a non-terminal level
levelSizedByP(a, p, r, pm, bp) ==
    [A |-> CopyMatrix(a, bp), P |-> CopyMatrix(p, bp), R |-> CopyMatrix(r, bp),
     f |-> MakeShared(CreateVector(cols(p), bp)),
     u |-> MakeShared(CreateVector(cols(p), bp)),
     t |-> MakeShared(CreateVector(cols(p), bp)),
     solve |-> Null,
     relax |-> MakeShared(Spai0(a, bp)),
     m_rows |-> rows(a), m_nonzeros |-> nonzeros(a)]
level(a, p, r, pm, bp) ==
    [A |-> CopyMatrix(a, bp), P |-> CopyMatrix(p, bp), R |-> CopyMatrix(r, bp),
     f |-> MakeShared(CreateVector(rows(a), bp)),
     u |-> MakeShared(CreateVector(rows(a), bp)),
     t |-> MakeShared(CreateVector(rows(a), bp)),
     solve |-> Null,
     relax |-> MakeShared(Spai0(a, bp)),
     m_rows |-> rows(a), m_nonzeros |-> nonzeros(a)]

\* level(a, bprm, no_finer_levels): the terminal level
coarsestKeepsA(a, bp, no_finer_levels) ==
    [A |-> CopyMatrix(a, bp),
     P |-> Null, R |-> Null,
     f |-> MakeShared(CreateVector(rows(a), bp)),
     u |-> MakeShared(CreateVector(rows(a), bp)),
     t |-> Null,
     solve |-> CreateSolver(a, bp),
     relax |-> Null,
     m_rows |-> rows(a), m_nonzeros |-> nonzeros(a)]
coarsest(a, bp, no_finer_levels) ==
    [A |-> IF no_finer_levels THEN CopyMatrix(a, bp) ELSE Null,
     P |-> Null, R |-> Null,
     f |-> MakeShared(CreateVector(rows(a), bp)),
     u |-> MakeShared(CreateVector(rows(a), bp)),
     t |-> Null,
     solve |-> CreateSolver(a, bp),
     relax |-> Null,
     m_rows |-> rows(a), m_nonzeros |-> nonzeros(a)]

(***************************************************************************)
(* State.                                                                  *)
(*   M, prm, bprm   the constructor's arguments; Coarsening the strategy   *)
(*   A, P, R        the constructor's locals (shared_ptr<build_matrix>)    *)
(*   levels         std::list<level>                                       *)
(*   pc, err        where the constructor is, and the message it threw     *)
(*   ntransfer, ncoarse   calls of transfer_operators / coarse_operator    *)
(*   sysmat         the pointer system_matrix() dereferenced               *)
(*   rhs, x         the caller's vectors; call the running public call:    *)
(*                  its kind, the x its first cycle started from and the   *)
(*                  number of cycles it started                            *)
(*   stack          the activation records of the private cycle();         *)
(*   ret            the last activation that returned                      *)
(*   results        the finished calls: what the first apply() left in x,  *)
(*                  whether an apply() was repeated, and the last call     *)
(*   spai           the running spai0 constructor: A, m, M, rows done      *)
(***************************************************************************)
VARIABLES M, prm, bprm, Coarsening, A, P, R, levels, pc, err,
          ntransfer, ncoarse, sysmat,
          rhs, x, call, stack, ret, results,
          spai

ctorVars == <<M, prm, bprm, Coarsening, A, P, R, pc, err, ntransfer, ncoarse>>
callVars == <<rhs, x, call, stack, ret, results>>
vars == <<M, prm, bprm, Coarsening, A, P, R, levels, pc, err, ntransfer, ncoarse,
          sysmat, rhs, x, call, stack, ret, results, spai>>

ShapeError == "Matrix should be square!"
DegenerateCoarsening == "Zero-sized coarse level in amgcl (diagonal matrix?)"

\* precondition(cond, msg) throws msg unless cond holds: the message
\* thrown, or "" when none is
Precondition(cond, msg) == IF cond THEN "" ELSE msg

\* backend::rows(M) == backend::cols(M)
SquareCheckOff(m) == TRUE
SquareCheck(m) == rows(m) = cols(m)
\* while (backend::rows(*A) > prm.coarse_enough)
LoopCondGe(a, pm) == rows(a) >= pm.coarse_enough
LoopCond(a, pm) == rows(a) > pm.coarse_enough
\* backend::cols(*P) > 0
CoarseCheckOff(p) == TRUE
CoarseCheck(p) == cols(p) > 0

\* r x c input with 2 on the diagonal and -1 beside it (the 1-D Poisson
\* matrix when r = c), each row given in descending column order
InputRow(i, c) ==
    LET InRange(j) == j >= 1 /\ j <= c
        js == SelectSeq(<<i + 1, i, i - 1>>, InRange)
    IN  [k \in 1..Len(js) |-> Entry(js[k], IF js[k] = i THEN 2 ELSE Neg(1))]
InputMatrix(r, c) == Matrix(r, c, [i \in 1..r |-> InputRow(i, c)])

NoCall == [kind |-> "idle", xstart |-> <<>>, i |-> 0]
NoRet == [lvl |-> 0, j |-> 0, ev |-> <<>>]
NoResults ==
    [first |-> Null, repeated |-> FALSE, last |-> [kind |-> "idle", n |-> 0, out |-> <<>>]]
NoSpai == [A |-> Matrix(0, 0, <<>>), m |-> <<>>, M |-> Null, done |-> {}]

\* the state before the constructor runs
InitCtor ==
    /\ A = Null /\ P = Null /\ R = Null
    /\ levels = <<>>
    /\ pc = "start" /\ err = ""
    /\ ntransfer = 0 /\ ncoarse = 0
    /\ sysmat = [called |-> FALSE, A |-> Null]
    /\ x = <<>> /\ call = NoCall /\ stack = <<>> /\ ret = NoRet /\ results = NoResults

(***************************************************************************)
(* amg::amg, the constructor.                                              *)
(***************************************************************************)
\* precondition(square); A = make_shared<build_matrix>(M); sort_rows(*A)
CtorBegin ==
    /\ pc = "start"
    /\ LET thrown == Precondition(SquareCheck(M), ShapeError)
       IN  IF thrown = ""
           THEN /\ A' = MakeShared(SortRows(M))
                /\ pc' = "loop"
                /\ err' = err
           ELSE /\ A' = A
                /\ pc' = "failed"
                /\ err' = thrown
    /\ UNCHANGED <<M, prm, bprm, Coarsening, P, R, levels, ntransfer, ncoarse>>
    /\ UNCHANGED <<sysmat, spai>> /\ UNCHANGED callVars

\* The loop has no bound of its own on levels.size(): the model stops it at
\* MaxLevels.  A coarsening that reduces the size at every call bounds the
\* loop by itself (at most MaxN - 1 levels precede a call), so there the
\* stop is placed where the loop cannot come.
LevelCap(strategy) == IF strategy = "reducing" THEN MaxN + 1 ELSE MaxLevels

\* loop test true; tie(P, R) = transfer_operators(*A); precondition(cols(*P) > 0)
CtorTransfer ==
    /\ pc = "loop"
    /\ LoopCond(Deref(A), prm)
    /\ Len(levels) < LevelCap(Coarsening)
    /\ \E m \in CoarseSizes(Coarsening, Deref(A)) :
          LET pr == TransferOperators(Deref(A), m)
              thrown == Precondition(CoarseCheck(pr.P), DegenerateCoarsening)
          IN  /\ P' = MakeShared(pr.P)
              /\ R' = MakeShared(pr.R)
              /\ ntransfer' = ntransfer + 1
              /\ pc' = IF thrown = "" THEN "push" ELSE "failed"
              /\ err' = thrown
    /\ UNCHANGED <<M, prm, bprm, Coarsening, A, levels, ncoarse>>
    /\ UNCHANGED <<sysmat, spai>> /\ UNCHANGED callVars

\* levels.push_back(level(A, P, R, prm, bprm))
CtorPush ==
    /\ pc = "push"
    /\ levels' = Append(levels, level(Deref(A), Deref(P), Deref(R), prm, bprm))
    /\ pc' = "coarse"
    /\ UNCHANGED <<M, prm, bprm, Coarsening, A, P, R, err, ntransfer, ncoarse>>
    /\ UNCHANGED <<sysmat, spai>> /\ UNCHANGED callVars

\* the loop body without the assignment to A
CtorCoarseKeepsA ==
    /\ pc = "coarse"
    /\ A' = A
    /\ ncoarse' = ncoarse + 1
    /\ pc' = "loop"
    /\ UNCHANGED <<M, prm, bprm, Coarsening, P, R, levels, err, ntransfer>>
    /\ UNCHANGED <<sysmat, spai>> /\ UNCHANGED callVars

\* A = coarse_operator(*A, *P, *R); sort_rows(*A)
CtorCoarse ==
    /\ pc = "coarse"
    /\ \E ac \in {CoarseOperator(Deref(A), Deref(P), Deref(R))} :
          A' = MakeShared(SortRows(ac))
    /\ ncoarse' = ncoarse + 1
    /\ pc' = "loop"
    /\ UNCHANGED <<M, prm, bprm, Coarsening, P, R, levels, err, ntransfer>>
    /\ UNCHANGED <<sysmat, spai>> /\ UNCHANGED callVars

\* loop test false; levels.push_back(level(A, bprm, levels.empty()))
CtorCoarsest ==
    /\ pc = "loop"
    /\ ~LoopCond(Deref(A), prm)
    /\ levels' = Append(levels, coarsest(Deref(A), bprm, levels = <<>>))
    /\ pc' = "built"
    /\ UNCHANGED <<M, prm, bprm, Coarsening, A, P, R, err, ntransfer, ncoarse>>
    /\ UNCHANGED <<sysmat, spai>> /\ UNCHANGED callVars

\* system_matrix(): return *levels.front().A
SystemMatrix ==
    /\ pc = "built"
    /\ ~sysmat.called
    /\ sysmat' = [called |-> TRUE, A |-> Head(levels).A]
    /\ UNCHANGED ctorVars /\ UNCHANGED callVars /\ UNCHANGED <<levels, spai>>

Ctor == CtorBegin \/ CtorTransfer \/ CtorPush \/ CtorCoarse \/ CtorCoarsest

InitSetup ==
    /\ M \in {InputMatrix(r, c) : r \in 0..MaxN, c \in 0..MaxN}
    /\ prm \in {DefaultParams(ce) : ce \in 0..MaxCoarseEnough}
    /\ bprm = [fill |-> 0]
    /\ Coarsening = "arbitrary"
    /\ rhs = <<>>
    /\ spai = NoSpai
    /\ InitCtor

NextSetup == Ctor \/ SystemMatrix

SpecSetup == InitSetup /\ [][NextSetup]_vars

(***************************************************************************)
(* The constructor with a coarsening that shrinks the matrix at every call *)
(* (cols(P) < rows(A)) or at none (cols(P) >= rows(A)).  The constructor   *)
(* is one sequential function: whenever its next statement can run, it     *)
(* does, which is weak fairness of Ctor.                                   *)
(***************************************************************************)
InitTermination ==
    /\ M \in {InputMatrix(r, c) : r \in 0..MaxN, c \in 0..MaxN}
    /\ prm \in {DefaultParams(ce) : ce \in 0..MaxCoarseEnough}
    /\ bprm = [fill |-> 0]
    /\ Coarsening \in {"reducing", "nonreducing"}
    /\ rhs = <<>>
    /\ spai = NoSpai
    /\ InitCtor

SpecTermination == InitTermination /\ [][NextSetup]_vars /\ WF_vars(Ctor)

(***************************************************************************)
(* The private recursive cycle(lvl, rhs, x).  An activation record is      *)
(* [lvl, j, i, pc, ev]: the level, the pass counter j, the sweep counter   *)
(* i, the statement to execute next and the steps done in the current      *)
(* pass.  Only the innermost activation (the top of the stack) runs.  At   *)
(* level 1 rhs and x are the caller's vectors; the recursive call binds    *)
(* them to *nxt->f and *nxt->u.                                            *)
(***************************************************************************)
Top == stack[Len(stack)]
\* nxt == levels.end()
IsTerminal(k) == k = Len(levels)
RhsOf(k) == IF k = 1 THEN rhs ELSE Deref(levels[k].f)
XOf(k) == IF k = 1 THEN x ELSE Deref(levels[k].u)

WithT(lv, k, v) == [lv EXCEPT ![k].t = MakeShared(v)]
WithF(lv, k, v) == [lv EXCEPT ![k].f = MakeShared(v)]
WithU(lv, k, v) == [lv EXCEPT ![k].u = MakeShared(v)]
\* the caller's x and the levels after x of the activation at level k is set
XAfter(k, v) == IF k = 1 THEN v ELSE x
LevelsAfter(lv, k, v) == IF k = 1 THEN lv ELSE WithU(lv, k, v)

\* the statements of one pass of the loop over j, in program order
PassOrder == <<"pre", "residual", "restrict", "clear", "recurse", "prolongate", "post">>
\* the statement after s; after the last one the loop over j is tested again
NextStepProlongateFirst(s) ==
    LET order == <<"pre", "residual", "restrict", "clear", "prolongate", "recurse", "post">>
        k == CHOOSE n \in 1..Len(order) : order[n] = s
    IN  IF k = Len(order) THEN "loop" ELSE order[k + 1]
NextStep(s) ==
    LET k == CHOOSE n \in 1..Len(PassOrder) : PassOrder[n] = s
    IN  IF k = Len(PassOrder) THEN "loop" ELSE PassOrder[k + 1]

\* for (i = 0; i < prm.npre; ++i) apply_pre(...)
PreSweeps(pm) == pm.npre
\* for (i = 0; i < prm.npre; ++i) apply_post(...)
PostSweeps(pm) == pm.npre

\* backend::spmv(1, *lvl->R, *lvl->t, 0, *nxt->f)
RestrictAccumulating(lv, nx) == Spmv(1, Deref(lv.R), Deref(lv.t), 1, Deref(nx.f))
Restrict(lv, nx) == Spmv(1, Deref(lv.R), Deref(lv.t), 0, Deref(nx.f))
\* backend::spmv(1, *lvl->P, *nxt->u, 1, x)
Prolongate(lv, nx, xv) == Spmv(1, Deref(lv.P), Deref(nx.u), 1, xv)

NewFrame(k) ==
    [lvl |-> k, j |-> 0, i |-> 0, pc |-> IF IsTerminal(k) THEN "coarse" ELSE "loop",
     ev |-> <<>>]
Goto(fr, s) == [fr EXCEPT !.pc = s, !.i = 0]
Log(fr, e) == [fr EXCEPT !.ev = Append(@, e)]
SetTop(fr) == [stack EXCEPT ![Len(stack)] = fr]
\* the stack after the innermost activation returned to its caller
Popped ==
    IF Len(stack) = 1 THEN <<>>
    ELSE LET rest == SubSeq(stack, 1, Len(stack) - 1)
         IN  [rest EXCEPT ![Len(rest)] = Log(@, "return")]

Running == pc = "built" /\ stack # <<>>
\* what no step of the private cycle() changes
cycleFixed == <<M, prm, bprm, Coarsening, A, P, R, pc, err, ntransfer, ncoarse,
                sysmat, spai, rhs, call, results>>

\* nxt == levels.end(): (*lvl->solve)(rhs, x); return
CycleCoarse ==
    /\ Running /\ Top.pc = "coarse"
    /\ LET k == Top.lvl
           v == Solve(Deref(levels[k].solve), RhsOf(k))
       IN  /\ x' = XAfter(k, v)
           /\ levels' = LevelsAfter(levels, k, v)
    /\ ret' = [lvl |-> Top.lvl, j |-> Top.j, ev |-> Append(Top.ev, "coarse")]
    /\ stack' = Popped
    /\ UNCHANGED cycleFixed

\* j < prm.ncycle: the next pass begins
CyclePass ==
    /\ Running /\ Top.pc = "loop"
    /\ Top.j < prm.ncycle
    /\ stack' = SetTop([Goto(Top, PassOrder[1]) EXCEPT !.ev = <<>>])
    /\ UNCHANGED <<x, levels, ret>> /\ UNCHANGED cycleFixed

\* j >= prm.ncycle: the activation returns
CycleReturn ==
    /\ Running /\ Top.pc = "loop"
    /\ ~(Top.j < prm.ncycle)
    /\ ret' = [lvl |-> Top.lvl, j |-> Top.j, ev |-> Top.ev]
    /\ stack' = Popped
    /\ UNCHANGED <<x, levels>> /\ UNCHANGED cycleFixed

\* for (i < npre) lvl->relax->apply_pre(*lvl->A, rhs, x, *lvl->t, prm.relax)
CyclePreSmooth ==
    /\ Running /\ Top.pc = "pre"
    /\ LET k == Top.lvl
           lv == levels[k]
           sw == ApplyPre(Deref(lv.relax), Deref(lv.A), RhsOf(k), XOf(k))
       IN  IF Top.i < PreSweeps(prm)
           THEN /\ x' = XAfter(k, sw.x)
                /\ levels' = LevelsAfter(WithT(levels, k, sw.tmp), k, sw.x)
                /\ stack' = SetTop(Log([Top EXCEPT !.i = @ + 1], "pre"))
           ELSE /\ stack' = SetTop(Goto(Top, NextStep("pre")))
                /\ UNCHANGED <<x, levels>>
    /\ UNCHANGED ret /\ UNCHANGED cycleFixed

\* backend::residual(rhs, *lvl->A, x, *lvl->t)
CycleResidual ==
    /\ Running /\ Top.pc = "residual"
    /\ LET k == Top.lvl
       IN  levels' = WithT(levels, k, Residual(RhsOf(k), Deref(levels[k].A), XOf(k)))
    /\ stack' = SetTop(Log(Goto(Top, NextStep("residual")), "residual"))
    /\ UNCHANGED <<x, ret>> /\ UNCHANGED cycleFixed

\* backend::spmv(1, *lvl->R, *lvl->t, 0, *nxt->f)
CycleRestrict ==
    /\ Running /\ Top.pc = "restrict"
    /\ LET k == Top.lvl
       IN  levels' = WithF(levels, k + 1, Restrict(levels[k], levels[k + 1]))
    /\ stack' = SetTop(Log(Goto(Top, NextStep("restrict")), "restrict"))
    /\ UNCHANGED <<x, ret>> /\ UNCHANGED cycleFixed

\* backend::clear(*nxt->u)
CycleClear ==
    /\ Running /\ Top.pc = "clear"
    /\ LET k == Top.lvl
       IN  levels' = WithU(levels, k + 1, Clear(Deref(levels[k + 1].u)))
    /\ stack' = SetTop(Log(Goto(Top, NextStep("clear")), "clear"))
    /\ UNCHANGED <<x, ret>> /\ UNCHANGED cycleFixed

\* cycle(nxt, *nxt->f, *nxt->u)
CycleRecurse ==
    /\ Running /\ Top.pc = "recurse"
    /\ stack' = Append(SetTop(Log(Goto(Top, NextStep("recurse")), "recurse")),
                       NewFrame(Top.lvl + 1))
    /\ UNCHANGED <<x, levels, ret>> /\ UNCHANGED cycleFixed

\* backend::spmv(1, *lvl->P, *nxt->u, 1, x)
CycleProlongate ==
    /\ Running /\ Top.pc = "prolongate"
    /\ LET k == Top.lvl
           v == Prolongate(levels[k], levels[k + 1], XOf(k))
       IN  /\ x' = XAfter(k, v)
           /\ levels' = LevelsAfter(levels, k, v)
    /\ stack' = SetTop(Log(Goto(Top, NextStep("prolongate")), "prolongate"))
    /\ UNCHANGED ret /\ UNCHANGED cycleFixed

\* for (i < npre) lvl->relax->apply_post(*lvl->A, rhs, x, *lvl->t, prm.relax);
\* then ++j
CyclePostSmooth ==
    /\ Running /\ Top.pc = "post"
    /\ LET k == Top.lvl
           lv == levels[k]
           sw == ApplyPost(Deref(lv.relax), Deref(lv.A), RhsOf(k), XOf(k))
       IN  IF Top.i < PostSweeps(prm)
           THEN /\ x' = XAfter(k, sw.x)
                /\ levels' = LevelsAfter(WithT(levels, k, sw.tmp), k, sw.x)
                /\ stack' = SetTop(Log([Top EXCEPT !.i = @ + 1], "post"))
           ELSE /\ stack' = SetTop([Goto(Top, NextStep("post")) EXCEPT !.j = @ + 1])
                /\ UNCHANGED <<x, levels>>
    /\ UNCHANGED ret /\ UNCHANGED cycleFixed

Cycle ==
    \/ CycleCoarse \/ CyclePass \/ CycleReturn \/ CyclePreSmooth \/ CycleResidual
    \/ CycleRestrict \/ CycleClear \/ CycleRecurse \/ CycleProlongate \/ CyclePostSmooth

(***************************************************************************)
(* The public entry points apply(rhs, x) and cycle(rhs, x).                *)
(***************************************************************************)
\* if (prm.pre_cycles) backend::clear(x); else backend::copy(rhs, x);
ApplyEntryNoClear(b, x0, pm) == IF pm.pre_cycles # 0 THEN x0 ELSE Copy(b, x0)
ApplyEntry(b, x0, pm) == IF pm.pre_cycles # 0 THEN Clear(x0) ELSE Copy(b, x0)
\* the public cycle() hands x to the private one as it is
CycleEntry(b, x0) == x0

\* what the caller may hold in x when it makes a call
XFills == {3, NaN}
XArgs == {[i \in 1..rows(M) |-> c] : c \in XFills}
\* the right-hand side the caller passes: (1, 2, .., n)
RhsArg(n) == [i \in 1..n |-> i]

Idle == pc = "built" /\ call.kind = "idle" /\ stack = <<>>
callFixed == <<M, prm, bprm, Coarsening, A, P, R, pc, err, ntransfer, ncoarse,
               sysmat, spai, rhs>>

\* apply(rhs, x) is entered with some x
CallApply ==
    /\ Idle
    /\ \E x0 \in XArgs :
          /\ x' = ApplyEntry(rhs, x0, prm)
          /\ call' = [kind |-> "apply", xstart |-> <<>>, i |-> 0]
    /\ UNCHANGED <<levels, stack, ret, results>> /\ UNCHANGED callFixed

\* for (i < prm.pre_cycles) cycle(levels.begin(), rhs, x)
ApplyCycle ==
    /\ pc = "built" /\ call.kind = "apply" /\ stack = <<>>
    /\ prm.pre_cycles # 0 /\ call.i < prm.pre_cycles
    /\ stack' = <<NewFrame(1)>>
    /\ call' = [call EXCEPT !.i = @ + 1, !.xstart = IF call.i = 0 THEN x ELSE @]
    /\ UNCHANGED <<x, levels, ret, results>> /\ UNCHANGED callFixed

\* cycle(rhs, x) is entered with some x: cycle(levels.begin(), rhs, x)
CallCycle ==
    /\ Idle
    /\ \E x0 \in XArgs :
          /\ x' = CycleEntry(rhs, x0)
          /\ call' = [kind |-> "cycle", xstart |-> x', i |-> 1]
    /\ stack' = <<NewFrame(1)>>
    /\ UNCHANGED <<levels, ret, results>> /\ UNCHANGED callFixed

\* the public call returns to the caller, who keeps x
CallReturn ==
    /\ pc = "built" /\ call.kind # "idle" /\ stack = <<>>
    /\ call.kind = "apply" => ~(prm.pre_cycles # 0 /\ call.i < prm.pre_cycles)
    /\ results' = [first |-> IF call.kind = "apply" /\ results.first = Null
                              THEN MakeShared(x) ELSE results.first,
                    repeated |-> results.repeated
                                 \/ (call.kind = "apply" /\ results.first # Null),
                    last |-> [kind |-> call.kind, n |-> call.i, out |-> x]]
    /\ call' = NoCall
    /\ UNCHANGED <<x, levels, stack, ret>> /\ UNCHANGED callFixed

Calls == CallApply \/ ApplyCycle \/ CallCycle \/ CallReturn

InitCycle ==
    /\ M = InputMatrix(MaxN, MaxN)
    /\ prm \in {Params(ce, a, b, c, d) : ce \in 1..MaxCoarseEnough, a \in 0..MaxSweeps,
                b \in 0..MaxSweeps, c \in 0..MaxNcycle, d \in 0..MaxPreCycles}
    /\ bprm \in {[fill |-> g] : g \in {0, NaN}}
    /\ Coarsening = "pairwise"
    /\ rhs = RhsArg(MaxN)
    /\ spai = NoSpai
    /\ InitCtor

NextCycle == Ctor \/ Cycle \/ Calls

SpecCycle == InitCycle /\ [][NextCycle]_vars

(***************************************************************************)
(* spai0::spai0, the constructor, row by row: the rows of the              *)
(* "#pragma omp parallel for" loop are computed in any order, each writing *)
(* its own m[i]; M = copy_vector(m) follows the loop.                      *)
(***************************************************************************)
\* a CSR row holding the nonzeros of the dense row d
RECURSIVE Stored(_, _)
Stored(d, j) ==
    IF j > Len(d) THEN <<>>
    ELSE (IF d[j] # 0 THEN <<Entry(j, d[j])>> ELSE <<>>) \o Stored(d, j + 1)
SpaiValues == {0, 1, Neg(1), 2}
SpaiInputs(n) ==
    {Matrix(n, n, [i \in 1..n |-> Stored(D[i], 1)]) :
        D \in [1..n -> [1..n -> SpaiValues]]}

\* std::vector<value_type> m(n)
SpaiBegin(a) == [A |-> a, m |-> [i \in 1..rows(a) |-> 0], M |-> Null, done |-> {}]

\* one iteration of the loop over the rows: m[i] = num / den
SpaiRow ==
    /\ \E i \in (1..rows(spai.A)) \ spai.done :
          spai' = [spai EXCEPT !.m[i] = Spai0Row(spai.A, i), !.done = @ \cup {i}]
    /\ UNCHANGED ctorVars /\ UNCHANGED callVars /\ UNCHANGED <<levels, sysmat>>

\* M = Backend::copy_vector(m, backend_prm)
SpaiCopy ==
    /\ spai.done = 1..rows(spai.A)
    /\ spai.M = Null
    /\ spai' = [spai EXCEPT !.M = CopyVector(spai.m, bprm)]
    /\ UNCHANGED ctorVars /\ UNCHANGED callVars /\ UNCHANGED <<levels, sysmat>>

InitSpai ==
    /\ \E n \in 0..MaxSpaiN : spai \in {SpaiBegin(a) : a \in SpaiInputs(n)}
    /\ M = Matrix(0, 0, <<>>)
    /\ prm = DefaultParams(0)
    /\ bprm = [fill |-> 0]
    /\ Coarsening = "arbitrary"
    /\ rhs = <<>>
    /\ InitCtor

NextSpai == SpaiRow \/ SpaiCopy

SpecSpai == InitSpai /\ [][NextSpai]_vars

(***************************************************************************)
(* Properties of the constructor (SpecSetup).                              *)
(***************************************************************************)
Built == pc = "built"
Last(sq) == sq[Len(sq)]
NonTerminal == 1..(Len(levels) - 1)

\* C2: after a successful construction the terminal level has at most
\* coarse_enough rows and every non-terminal level has more; when the
\* input has at most coarse_enough rows the hierarchy is the terminal level
\* alone and transfer_operators was never called.
C2_CoarseEnough ==
    Built =>
        /\ Last(levels).m_rows = rows(Deref(A))
        /\ Last(levels).m_rows <= prm.coarse_enough
        /\ \A k \in NonTerminal :
              /\ levels[k].m_rows = rows(Deref(levels[k].A))
              /\ levels[k].m_rows > prm.coarse_enough
        /\ rows(M) <= prm.coarse_enough =>
              /\ Len(levels) = 1
              /\ ntransfer = 0 /\ ncoarse = 0
              /\ P = Null /\ R = Null
\* a hierarchy of three levels was built
C2_Witness == Built /\ Len(levels) = 3 /\ prm.coarse_enough > 0

\* C3: with rows(M) # cols(M) the constructor fails with the shape error
\* before any coarsening: no transfer operator, no coarse operator, no level.
C3_ShapeError ==
    rows(M) # cols(M) =>
        /\ pc \in {"start", "failed"}
        /\ pc = "failed" => err = ShapeError
        /\ ntransfer = 0 /\ ncoarse = 0
        /\ levels = <<>>
        /\ A = Null /\ P = Null /\ R = Null
\* the constructor has run on a non-square matrix with more than
\* coarse_enough rows
C3_Witness ==
    rows(M) # cols(M) /\ rows(M) > prm.coarse_enough /\ pc = "failed"

\* C4: when transfer_operators returns P with no columns the constructor
\* fails with the degenerate-coarsening error: the level of the current A
\* is not emplaced, no coarse operator is computed from it, and there is no
\* terminal level; every P stored in a level has at least one column.
C4_DegenerateCoarsening ==
    /\ \A k \in 1..Len(levels) :
          levels[k].P # Null => cols(Deref(levels[k].P)) > 0
    /\ (P # Null /\ cols(Deref(P)) = 0) =>
          /\ pc = "failed" /\ err = DegenerateCoarsening
          /\ Len(levels) = ntransfer - 1
          /\ ncoarse = ntransfer - 1
          /\ \A k \in 1..Len(levels) : levels[k].solve = Null
    /\ err = DegenerateCoarsening => (pc = "failed" /\ cols(Deref(P)) = 0)
\* the coarsening failed at the second level
C4_Witness ==
    pc = "failed" /\ err = DegenerateCoarsening /\ ntransfer = 2 /\ Len(levels) = 1

\* C9: after a successful construction the terminal level stores A exactly
\* when it is the only level; a non-terminal level stores A, P, R and the
\* relaxation and no solver; the terminal level stores the solver and no
\* P, R or relaxation; system_matrix() dereferences a non-empty pointer.
C9_LevelContents ==
    /\ Built =>
          /\ (Last(levels).A # Null) <=> (Len(levels) = 1)
          /\ Last(levels).solve # Null
          /\ Last(levels).P = Null /\ Last(levels).R = Null
          /\ Last(levels).relax = Null
          /\ \A k \in NonTerminal :
                /\ levels[k].A # Null /\ levels[k].P # Null /\ levels[k].R # Null
                /\ levels[k].relax # Null
                /\ levels[k].solve = Null
          /\ Head(levels).A # Null
    /\ sysmat.called => sysmat.A # Null
\* system_matrix() was called on a hierarchy with a finer level
C9_Witness == Built /\ sysmat.called /\ Len(levels) >= 2

\* C10: in a built hierarchy, for every non-terminal level k,
\* rows(A_k+1) = cols(P_k) = rows(R_k) and cols(R_k) = rows(A_k) = rows(P_k);
\* at every level f and u (and t where it exists) have rows(A_k) elements,
\* so f and u of the next level fit R_k and P_k.
C10_Shapes ==
    Built =>
        /\ Last(levels).m_rows = rows(Deref(A))
        /\ \A k \in 1..Len(levels) :
              /\ Len(Deref(levels[k].f)) = levels[k].m_rows
              /\ Len(Deref(levels[k].u)) = levels[k].m_rows
        /\ \A k \in NonTerminal :
              LET lv == levels[k]
                  nx == levels[k + 1]
              IN  /\ rows(Deref(lv.A)) = lv.m_rows
                  /\ cols(Deref(lv.A)) = rows(Deref(lv.A))
                  /\ Len(Deref(lv.t)) = rows(Deref(lv.A))
                  /\ nx.m_rows = cols(Deref(lv.P))
                  /\ nx.m_rows = rows(Deref(lv.R))
                  /\ cols(Deref(lv.R)) = rows(Deref(lv.A))
                  /\ rows(Deref(lv.P)) = rows(Deref(lv.A))
                  /\ Len(Deref(nx.f)) = rows(Deref(lv.R))
                  /\ Len(Deref(nx.u)) = cols(Deref(lv.P))
\* a built hierarchy with a level that is coarser than the one before it
C10_Witness ==
    Built /\ Len(levels) >= 3 /\ levels[2].m_rows < levels[1].m_rows

(***************************************************************************)
(* Properties of cycle() and apply() (SpecCycle).                          *)
(***************************************************************************)
Count(sq, e) == Cardinality({k \in 1..Len(sq) : sq[k] = e})
Zeros(n) == [i \in 1..n |-> 0]
NoNaN(v) == \A i \in 1..Len(v) : v[i] # NaN

\* C1: every completed pass of an activation at a non-terminal level made
\* exactly npre calls of apply_pre and exactly npost calls of apply_post.
C1_SweepCounts ==
    \A d \in 1..Len(stack) :
        (stack[d].pc = "loop" /\ stack[d].j > 0) =>
            /\ Count(stack[d].ev, "pre") = prm.npre
            /\ Count(stack[d].ev, "post") = prm.npost

\* the steps of a pass between the two smoothing loops, in the order claimed
Middle == <<"residual", "restrict", "clear", "recurse", "return", "prolongate">>
Rank(e) ==
    IF e = "pre" THEN 0
    ELSE IF e = "post" THEN Len(Middle) + 1
    ELSE CHOOSE n \in 1..Len(Middle) : Middle[n] = e
NotSweep(e) == e \notin {"pre", "post"}
IsPrefix(sq, full) == Len(sq) <= Len(full) /\ sq = SubSeq(full, 1, Len(sq))
\* ev is pre* followed by a prefix of Middle, followed (only after the whole
\* of Middle) by post*
PassShape(ev) ==
    /\ \A a, b \in 1..Len(ev) : a < b => Rank(ev[a]) <= Rank(ev[b])
    /\ IsPrefix(SelectSeq(ev, NotSweep), Middle)
    /\ Count(ev, "post") > 0 => SelectSeq(ev, NotSweep) = Middle

\* C8: in every pass at a non-terminal level the steps come in the order
\* pre-smooth, residual, restrict, clear, recurse, prolongate, post-smooth,
\* each of the middle steps once, with the results t = rhs - A x,
\* f_next = R t and u_next = 0; the activation of the next level runs on
\* (f_next, u_next) and has returned before the prolongation; a terminal
\* activation does one direct solve and nothing else, whatever ncycle is.
C8_StepOrder ==
    /\ \A d \in 1..Len(stack) :
          LET fr == stack[d]
          IN  /\ fr.lvl = d
              /\ d < Len(stack) => fr.ev[Len(fr.ev)] = "recurse"
              /\ IF IsTerminal(d)
                 THEN fr.pc = "coarse" /\ fr.ev = <<>> /\ fr.j = 0
                 ELSE /\ PassShape(fr.ev)
                      /\ fr.j <= prm.ncycle
                      /\ (fr.pc = "loop" /\ fr.j > 0) =>
                            SelectSeq(fr.ev, NotSweep) = Middle
    /\ stack # <<>> /\ ~IsTerminal(Top.lvl) /\ Top.ev # <<>> =>
          LET k == Top.lvl
              e == Top.ev[Len(Top.ev)]
          IN  /\ e = "residual" =>
                    Deref(levels[k].t) = Residual(RhsOf(k), Deref(levels[k].A), XOf(k))
              /\ e = "restrict" =>
                    Deref(levels[k + 1].f)
                       = Spmv(1, Deref(levels[k].R), Deref(levels[k].t), 0, <<>>)
              /\ e = "clear" => Deref(levels[k + 1].u) = Zeros(levels[k + 1].m_rows)
              /\ e = "return" => ret.lvl = k + 1
    /\ ret.lvl # 0 =>
          IF IsTerminal(ret.lvl)
          THEN ret.ev = <<"coarse">>
          ELSE /\ ret.j = prm.ncycle
               /\ prm.ncycle > 0 => SelectSeq(ret.ev, NotSweep) = Middle
\* the second pass of a W-cycle at the finest of three levels is complete
\* and the activation of the middle level has returned
C8_Witness ==
    /\ Len(levels) = 3 /\ Len(stack) = 1
    /\ Top.pc = "loop" /\ Top.j = 2 /\ prm.npre > 0
    /\ ret.lvl = 2

C6_RepeatedApply ==
    /\ results.last.kind = "apply" =>
          /\ results.first # Null
          /\ results.last.out = Deref(results.first)
    /\ (call.kind = "apply" /\ stack = <<>>) => NoNaN(x)
\* a second apply() returned, on three levels with never-written scratch
\* vectors holding NaN, W-cycles and smoothing
C6_Witness ==
    /\ results.repeated /\ results.last.kind = "apply"
    /\ bprm.fill = NaN /\ Len(levels) = 3
    /\ prm.ncycle = 2 /\ prm.npre > 0 /\ prm.pre_cycles > 0

(***************************************************************************)
(* Property of the spai0 constructor (SpecSpai).                           *)
(***************************************************************************)
\* C7: a row whose sum of squared entries is zero gets M[i] = 0; the
\* construction completes and the other rows are as they would be.
C7_ZeroDenominator ==
    /\ \A i \in spai.done :
          Spai0Den(spai.A.row[i]) = 0 => spai.m[i] = 0
    /\ spai.M # Null =>
          \A i \in 1..rows(spai.A) :
              Spai0Den(spai.A.row[i]) = 0 => Deref(spai.M)[i] = 0

(***************************************************************************)
(* Termination of the constructor (SpecTermination).                       *)
(***************************************************************************)
Terminated == pc \in {"built", "failed"}
Reducing == Coarsening = "reducing"
NonReducing == Coarsening = "nonreducing"
LevelBound ==
    (IF rows(M) > prm.coarse_enough THEN rows(M) - prm.coarse_enough ELSE 0) + 1

\* C11: when every call of the coarsening returns cols(P) < rows(A), the
\* constructor ends, with the terminal level pushed or with a fatal error,
\* and never holds more than max(rows(M) - coarse_enough, 0) + 1 levels.
\* The constructor tests cols(P) > 0 only: when every call returns
\* cols(P) >= rows(A) on a square input with more than coarse_enough rows,
\* nothing is thrown, the loop test stays true and the terminal level is
\* never pushed.
C11_Termination ==
    /\ Reducing ~> Terminated
    /\ [](Reducing => Len(levels) <= LevelBound)
    /\ []((NonReducing /\ SquareCheck(M) /\ rows(M) > prm.coarse_enough) =>
            /\ err = "" /\ ~Terminated
            /\ pc = "loop" => LoopCond(Deref(A), prm))
\* a reducing coarsening took the constructor through three levels, one row
\* less at each, to the terminal level: the bound is attained
C11_Witness ==
    /\ Reducing /\ Built
    /\ rows(M) > prm.coarse_enough
    /\ Len(levels) >= 3 /\ Len(levels) = LevelBound
\* C11 as stated: under a reducing coarsening the number of levels is at
\* most rows(M) - coarse_enough + 1.
C11_LevelBoundAsStated ==
    (Reducing /\ Built) => Len(levels) <= rows(M) - prm.coarse_enough + 1

====
